---- MODULE Spec2Model ----
(***************************************************************************)
(* A model of src/train.py: the Lightning module `Model` (its per-batch    *)
(* step, the two step handlers, configure_optimizers) and the script's     *)
(* main.  Tensors are sequences, one entry per sample of the batch.  Real  *)
(* numbers are exact rationals <<numerator, denominator>> in lowest terms; *)
(* per-sample cross entropies are in thousandths of a nat.                 *)
(***************************************************************************)
EXTENDS Integers, Sequences, FiniteSets, TLC

VARIABLES
    pc,          \* main: the statement that runs next
    calls,       \* main: the statements performed so far, in order
    cfg,         \* the DictConfig hydra hands to main
    dataset,     \* the data on disk: the batches one pass of a dataloader yields
    rng,         \* the global random state: whether seeded, and the seed
    locals,      \* main's local names: config, logger, datamodule, model, trainer
    optimizers,  \* what configure_optimizers returned to the trainer
    phase,       \* trainer.fit: "setup", "train", "val" or "end"
    idx,         \* trainer.fit: the index of the next batch of the running loop
    stage,       \* the last step handler that ran: "none", "train" or "val"
    batch,       \* the batch that handler was given
    c_arg,       \* the group indicator that step handed to HSIC
    metrics,     \* the metrics mapping step returned
    logged,      \* the mapping the handler passed to log_dict
    returned,    \* the value the handler returned
    epoch,       \* trainer.fit: the mappings logged in the running loop, in order
    epoch_log    \* trainer.fit: the mapping reduced at the end of the last loop

vars == <<pc, calls, cfg, dataset, rng, locals, optimizers, phase, idx, stage,
          batch, c_arg, metrics, logged, returned, epoch, epoch_log>>

mainVars == <<pc, calls, cfg, dataset, rng, locals>>
stepVars == <<stage, batch, c_arg, metrics, logged, returned>>
loopVars == <<optimizers, phase, idx, epoch, epoch_log>>

-----------------------------------------------------------------------------
(* Bounds of the model. *)

MaxBatch == 2          \* samples per batch: 1 .. MaxBatch
MaxEpochBatches == 2   \* batches per pass over the data, where a pass has several

(* Program constants. *)

NumGroups == 4         \* one_hot(y['group_idx'], num_classes=4)
NumIndicator == 2      \* one_hot(y['group_idx'] % 2, num_classes=2)

-----------------------------------------------------------------------------
(* Exact rational arithmetic. *)

\* F applied to the value of e, which is evaluated once.
Let(e, F(_)) == CHOOSE r \in {F(v) : v \in {e}} : TRUE

Abs(a) == IF a < 0 THEN -a ELSE a

RECURSIVE GCD(_, _)
GCD(a, b) == IF b = 0 THEN a ELSE GCD(b, a % b)

Sign(n) == IF n > 0 THEN 1 ELSE IF n < 0 THEN -1 ELSE 0

\* n / d.  A zero divisor gives what the tensor division gives: <<0, 0>> is
\* nan (0 / 0) and <<1, 0>>, <<-1, 0>> are the infinities.
Rat(n, d) ==
    Let(<<n, d>>, LAMBDA x :
        IF x[2] = 0
        THEN <<Sign(x[1]), 0>>
        ELSE Let(Sign(x[2]) * GCD(Abs(x[1]), Abs(x[2])), LAMBDA g :
                 <<x[1] \div g, x[2] \div g>>))

IsFinite(q) == q[2] # 0

RatInt(n) == <<n, 1>>
RatAdd(p, q) ==
    Let(<<p, q>>, LAMBDA x : Rat(x[1][1] * x[2][2] + x[2][1] * x[1][2], x[1][2] * x[2][2]))
RatMul(p, q) ==
    Let(<<p, q>>, LAMBDA x : Rat(x[1][1] * x[2][1], x[1][2] * x[2][2]))
RatLeq(p, q) == p[1] * q[2] <= q[1] * p[2]

RECURSIVE SumTo(_, _)
SumTo(s, n) == IF n = 0 THEN 0 ELSE s[n] + SumTo(s, n - 1)

\* The sum of a sequence of integers.
SumSeq(s) == Let(s, LAMBDA v : SumTo(v, Len(v)))

RECURSIVE RatSumTo(_, _)
RatSumTo(s, n) == IF n = 0 THEN RatInt(0) ELSE RatAdd(s[n], RatSumTo(s, n - 1))

\* The sum of a sequence of rationals.
RatSumSeq(s) == Let(s, LAMBDA v : RatSumTo(v, Len(v)))

-----------------------------------------------------------------------------
(* Tensors. *)

Groups == 0 .. (NumGroups - 1)
Classes == {0, 1}

\* The network's outputs for one sample: the two class logits.
Logits == {<<1, 0>>, <<0, 2>>}

\* One sample of a batch: its label dictionary and the network's output for
\* its input.
Samples == [group_idx : Groups, Blond_Hair : Classes, y_hat : Logits]

\* A sample's place in the order in which a batch lists its samples.
Rank(s) == 4 * s.group_idx + 2 * s.Blond_Hair + (IF s.y_hat = <<1, 0>> THEN 0 ELSE 1)

\* The batches over a set of samples, each taken once whatever the order of
\* its samples: the samples are listed by rank.
BatchesOver(S) ==
    UNION {{b \in [1 .. n -> S] : \A i \in 1 .. (n - 1) : Rank(b[i]) <= Rank(b[i + 1])} :
              n \in 1 .. MaxBatch}

Batches == BatchesOver(Samples)

\* torch.nn.functional.one_hot: a row of num_classes entries, 1 at index v.
one_hot(v, num_classes) == [k \in 0 .. (num_classes - 1) |-> IF k = v THEN 1 ELSE 0]

\* torch.argmax(y_hat, 1) on a row of two logits (the first maximal index).
argmax(l) == IF l[2] > l[1] THEN 1 ELSE 0

\* log(1 + e^d) in thousandths, for the logit margins the model draws.
Softplus(d) ==
    CASE d = -2 -> 127
      [] d = -1 -> 313
      [] d = 0  -> 693
      [] d = 1  -> 1313
      [] d = 2  -> 2127

\* nn.CrossEntropyLoss(reduction='none') on one row: -log softmax(l)[label].
cross_entropy_loss(l, label) == Softplus(l[2 - label] - l[label + 1])

\* pytorch_lightning.metrics.functional.accuracy: the fraction of rows whose
\* argmax is the label.
accuracy(b) ==
    Rat(Cardinality({i \in DOMAIN b : argmax(b[i].y_hat) = b[i].Blond_Hair}), Len(b))

-----------------------------------------------------------------------------
(* src.utils.hsic.HSIC: the biased estimator trace(K H L H) / n^2 with the    *)
(* centring matrix H = I - 1/n and a polynomial kernel of degree 2 on the     *)
(* rows.  H is kept as n I - J, so that every entry is an integer.            *)

Dot(u, v) == SumSeq([k \in 1 .. Len(u) |-> u[k] * v[k]])

Kernel(u, v) == Let(1 + Dot(u, v), LAMBDA d : d * d)

Centring(n, i, j) == IF i = j THEN n - 1 ELSE -1

HSIC(x, y) ==
    LET n == Len(x)
        I == 1 .. n
        term(i, j, k, l) ==
            Kernel(x[i], x[j]) * Centring(n, j, k) * Kernel(y[k], y[l]) * Centring(n, l, i)
        trace == SumSeq([i \in I |-> SumSeq([j \in I |-> SumSeq([k \in I |->
                     SumSeq([l \in I |-> term(i, j, k, l)])])])])
    IN  Rat(trace, n * n * n * n)

-----------------------------------------------------------------------------
(* Model.__get_group_metrics *)

\* one_hot(y['group_idx'], num_classes=4).float(): one row per sample.
group_map(b) == [i \in DOMAIN b |-> one_hot(b[i].group_idx, NumGroups)]

\* group_map.sum(0)
group_count(gm) == [g \in Groups |-> SumSeq([i \in DOMAIN gm |-> gm[i][g]])]

\* Variant: the bare count, without the guard against empty groups.
avoid_nans_count(gc) == [g \in Groups |-> gc[g]]
\* n = group_count + (group_count == 0).float()
avoid_nans(gc) == [g \in Groups |-> gc[g] + (IF gc[g] = 0 THEN 1 ELSE 0)]

\* Variant: the sum over the whole batch, without the group mask.
compute_group_avg_all(gm, n, m) ==
    [g \in Groups |-> Rat(SumSeq([i \in DOMAIN gm |-> m[i]]), n[g])]
\* compute_group_avg = lambda m: (group_map.t() @ m.view(-1)) / n
compute_group_avg(gm, n, m) ==
    [g \in Groups |-> Rat(SumSeq([i \in DOMAIN gm |-> gm[i][g] * m[i]]), n[g])]

\* Variant: the comparison with the label negated.
correct_argmin(b) ==
    [i \in DOMAIN b |-> IF argmax(b[i].y_hat) # b[i].Blond_Hair THEN 1 ELSE 0]
\* (torch.argmax(y_hat, 1) == y['Blond_Hair']).float()
correct(b) ==
    [i \in DOMAIN b |-> IF argmax(b[i].y_hat) = b[i].Blond_Hair THEN 1 ELSE 0]

get_group_metrics(b, cross_entropies) ==
    LET gm == group_map(b)
        n  == avoid_nans(group_count(gm))
    IN  [group_cross_entropy |-> compute_group_avg(gm, n, cross_entropies),
         group_acc           |-> compute_group_avg(gm, n, correct(b))]

-----------------------------------------------------------------------------
(* Model.step *)

\* Variant: group_idx // 2 in place of group_idx % 2.
indicator_half(b) == [i \in DOMAIN b |-> one_hot(b[i].group_idx \div 2, NumIndicator)]
\* c = one_hot(y['group_idx'] % 2, num_classes=2).float()
indicator(b) == [i \in DOMAIN b |-> one_hot(b[i].group_idx % 2, NumIndicator)]

\* The rows of a one_hot tensor (indexed from 0) as tuples, for the kernel.
Rows(t) == [i \in DOMAIN t |-> [k \in 1 .. NumIndicator |-> t[i][k - 1]]]

\* cross_entropies = self.cross_entropy(y_hat, y['Blond_Hair'])
cross_entropies_of(b) ==
    [i \in DOMAIN b |-> cross_entropy_loss(b[i].y_hat, b[i].Blond_Hair)]

\* Variant: the penalty added without its weight.
total_loss_unweighted(cross_entropy, weight, hsic) == RatAdd(cross_entropy, hsic)
\* loss = cross_entropy + self.config.hsic.weight * hsic
total_loss(cross_entropy, weight, hsic) ==
    RatAdd(cross_entropy, RatMul(RatInt(weight), hsic))

\* Variant: 'loss' reports the cross entropy.
metrics_dict_ce(acc, loss, hsic, cross_entropy, gce, gacc) ==
    [acc |-> acc, loss |-> cross_entropy, hsic |-> hsic, cross_entropy |-> cross_entropy,
     cross_entropy_group_0 |-> gce[0], cross_entropy_group_1 |-> gce[1],
     cross_entropy_group_2 |-> gce[2], cross_entropy_group_3 |-> gce[3],
     acc_group_0 |-> gacc[0], acc_group_1 |-> gacc[1],
     acc_group_2 |-> gacc[2], acc_group_3 |-> gacc[3]]
\* metrics = {'acc': acc, 'loss': loss, ...}
metrics_dict(acc, loss, hsic, cross_entropy, gce, gacc) ==
    [acc |-> acc, loss |-> loss, hsic |-> hsic, cross_entropy |-> cross_entropy,
     cross_entropy_group_0 |-> gce[0], cross_entropy_group_1 |-> gce[1],
     cross_entropy_group_2 |-> gce[2], cross_entropy_group_3 |-> gce[3],
     acc_group_0 |-> gacc[0], acc_group_1 |-> gacc[1],
     acc_group_2 |-> gacc[2], acc_group_3 |-> gacc[3]]

\* step(batch, batch_idx) for a Model whose config.hsic.weight is `weight`:
\* the pair it returns, and the indicator it handed to HSIC.
step(b, weight) ==
    LET c               == indicator(b)
        y_hat           == [i \in DOMAIN b |-> b[i].y_hat]
        cross_entropies == cross_entropies_of(b)
        cross_entropy   == Rat(SumSeq(cross_entropies), Len(b))
        hsic            == HSIC(Rows(c), y_hat)
        acc             == accuracy(b)
        loss            == total_loss(cross_entropy, weight, hsic)
        gm              == get_group_metrics(b, cross_entropies)
    IN  [loss    |-> loss,
         metrics |-> metrics_dict(acc, loss, hsic, cross_entropy,
                                  gm.group_cross_entropy, gm.group_acc),
         c       |-> c]

-----------------------------------------------------------------------------
(* Model.training_step, Model.validation_step *)

\* The empty mapping: a name not yet bound, a dict with no key.
Empty == [k \in {} |-> 0]

\* {f'{prefix}{key}': metrics[key] for key in metrics}
prefixed(prefix, m) ==
    [k \in {prefix \o key : key \in DOMAIN m} |->
        m[CHOOSE key \in DOMAIN m : prefix \o key = k]]

\* metrics = {f'train_{key}': metrics[key] for key in metrics}
train_metrics(m) == prefixed("train_", m)

\* Variant: the training prefix in validation_step.
val_metrics_train(m) == prefixed("train_", m)
\* metrics = {f'val_{key}': metrics[key] for key in metrics}
val_metrics(m) == prefixed("val_", m)

\* The handler's effect: one call of step, the prefixed mapping handed to
\* log_dict, and step's loss returned.
training_step(b, weight) ==
    \E r \in {step(b, weight)} :
        /\ stage' = "train"
        /\ batch' = b
        /\ c_arg' = r.c
        /\ metrics' = r.metrics
        /\ logged' = train_metrics(r.metrics)
        /\ returned' = r.loss

validation_step(b, weight) ==
    \E r \in {step(b, weight)} :
        /\ stage' = "val"
        /\ batch' = b
        /\ c_arg' = r.c
        /\ metrics' = r.metrics
        /\ logged' = val_metrics(r.metrics)
        /\ returned' = r.loss

-----------------------------------------------------------------------------
(* Model.configure_optimizers *)

\* config.optimizer.get_optimizer(self.parameters())
get_optimizer(params) == [kind |-> "optimizer", params |-> params]

\* config.scheduler.get_scheduler(optimizer): a scheduler on that optimizer,
\* or None (the empty sequence) when the configuration names none.
get_scheduler(config, optimizer) ==
    IF config.scheduler THEN <<[kind |-> "scheduler", optimizer |-> optimizer]>> ELSE <<>>

\* Variant: 'lr_scheduler' added whatever the factory returned.
configure_optimizers_always(config) ==
    LET optimizer == get_optimizer("network.parameters")
    IN  ("lr_scheduler" :> [scheduler |-> optimizer, monitor |-> "val_loss"])
            @@ [optimizer |-> optimizer]
configure_optimizers(config) ==
    LET optimizer == get_optimizer("network.parameters")
        scheduler == get_scheduler(config, optimizer)
        ret_opt   == [optimizer |-> optimizer]
    IN  IF scheduler # <<>>
        THEN ("lr_scheduler" :> [scheduler |-> scheduler[1], monitor |-> "val_loss"])
                 @@ ret_opt
        ELSE ret_opt

-----------------------------------------------------------------------------
(* main *)

HsicWeights == {0, 2}
Seeds == {7}

\* The configurations hydra may hand to main.
Cfgs == [hsic_weight : HsicWeights, scheduler : BOOLEAN, random_seed : Seeds]

\* ConfigParser.parse_config: the resolved dataclass.
parse_config(c) ==
    [hsic |-> [weight |-> c.hsic_weight], scheduler |-> c.scheduler,
     random_seed |-> c.random_seed]

\* Model.__init__
new_model(c, r) == [config |-> parse_config(c), network |-> [init_rng |-> r]]

\* Variant: the seeds fixed after the logger and the datamodule are built.
main_next_data_first(s) ==
    CASE s = "parse_config"   -> "get_logger"
      [] s = "get_logger"     -> "get_datamodule"
      [] s = "get_datamodule" -> "fix_seeds"
      [] s = "fix_seeds"      -> "Model"
      [] s = "Model"          -> "get_trainer"
      [] s = "get_trainer"    -> "fit"
      [] s = "fit"            -> "in_fit"
\* The statement of main that follows statement s.
main_next(s) ==
    CASE s = "parse_config"   -> "fix_seeds"
      [] s = "fix_seeds"      -> "get_logger"
      [] s = "get_logger"     -> "get_datamodule"
      [] s = "get_datamodule" -> "Model"
      [] s = "Model"          -> "get_trainer"
      [] s = "get_trainer"    -> "fit"
      [] s = "fit"            -> "in_fit"

\* One statement of main has run.
Advance(s) ==
    /\ pc = s
    /\ pc' = main_next(s)
    /\ calls' = Append(calls, s)
    /\ UNCHANGED <<cfg, dataset>>

\* config = ConfigParser.parse_config(cfg)
ParseConfig ==
    /\ Advance("parse_config")
    /\ locals' = ("config" :> parse_config(cfg)) @@ locals
    /\ UNCHANGED <<rng, stepVars, loopVars>>

\* utils.fix_seeds(config.random_seed)
FixSeeds ==
    /\ Advance("fix_seeds")
    /\ rng' = [seeded |-> TRUE, seed |-> locals["config"].random_seed]
    /\ UNCHANGED <<locals, stepVars, loopVars>>

\* logger = config.logger.get_logger(config.logs_root_dir)
GetLogger ==
    /\ Advance("get_logger")
    /\ locals' = ("logger" :> [kind |-> "logger"]) @@ locals
    /\ UNCHANGED <<rng, stepVars, loopVars>>

\* datamodule = config.dataset.get_datamodule()
GetDatamodule ==
    /\ Advance("get_datamodule")
    /\ locals' = ("datamodule" :> [batches |-> dataset, init_rng |-> rng]) @@ locals
    /\ UNCHANGED <<rng, stepVars, loopVars>>

\* model = Model(cfg)
NewModel ==
    /\ Advance("Model")
    /\ locals' = ("model" :> new_model(cfg, rng)) @@ locals
    /\ UNCHANGED <<rng, stepVars, loopVars>>

\* trainer = config.trainer.get_trainer(logger, config.logs_root_dir)
GetTrainer ==
    /\ Advance("get_trainer")
    /\ locals' = ("trainer" :> [kind |-> "trainer", logger |-> locals["logger"]]) @@ locals
    /\ UNCHANGED <<rng, stepVars, loopVars>>

\* trainer.fit(model, datamodule=datamodule)
Fit ==
    /\ Advance("fit")
    /\ UNCHANGED <<rng, locals, stepVars, loopVars>>

-----------------------------------------------------------------------------
(* trainer.fit: the framework's loop over the datamodule's batches, calling   *)
(* the Model's hooks.  log_dict(..., on_step=False, on_epoch=True) keeps each *)
(* logged mapping until the loop's end and then reduces every key.            *)

Weight == locals["model"].config.hsic.weight
Data == locals["datamodule"].batches

reduce_on_epoch_end(logs, sizes, fx) ==
    LET n == Len(logs)
        w(i) == IF fx = "mean" THEN 1 ELSE sizes[i]
        total == SumSeq([i \in 1 .. n |-> w(i)])
    IN  [k \in DOMAIN logs[1] |->
            RatMul(RatSumSeq([i \in 1 .. n |-> RatMul(RatInt(w(i)), logs[i][k])]),
                   Rat(1, total))]

ConfigureOptimizers ==
    /\ pc = "in_fit" /\ phase = "setup"
    /\ optimizers' = configure_optimizers(locals["model"].config)
    /\ phase' = "train"
    /\ UNCHANGED <<mainVars, stepVars, idx, epoch, epoch_log>>

TrainingStep ==
    /\ pc = "in_fit" /\ phase = "train" /\ idx <= Len(Data)
    /\ training_step(Data[idx], Weight)
    /\ epoch' = Append(epoch, logged')
    /\ idx' = idx + 1
    /\ UNCHANGED <<mainVars, optimizers, phase, epoch_log>>

ValidationStep ==
    /\ pc = "in_fit" /\ phase = "val" /\ idx <= Len(Data)
    /\ validation_step(Data[idx], Weight)
    /\ epoch' = Append(epoch, logged')
    /\ idx' = idx + 1
    /\ UNCHANGED <<mainVars, optimizers, phase, epoch_log>>

\* The end of the training loop, then of the validation loop.  The framework
\* reduces each key by the plain mean of its values or by their mean weighted
\* with the batch sizes, as its version has it.
EpochEnd ==
    /\ pc = "in_fit" /\ phase \in {"train", "val"} /\ idx > Len(Data)
    /\ \E fx \in {"mean", "weighted_mean"} :
           epoch_log' = reduce_on_epoch_end(epoch, [i \in DOMAIN Data |-> Len(Data[i])], fx)
    /\ epoch' = <<>>
    /\ idx' = 1
    /\ phase' = IF phase = "train" THEN "val" ELSE "end"
    /\ UNCHANGED <<mainVars, stepVars, optimizers>>

\* fit returns and main ends.
FitReturns ==
    /\ pc = "in_fit" /\ phase = "end"
    /\ pc' = "done"
    /\ UNCHANGED <<calls, cfg, dataset, rng, locals, stepVars, loopVars>>

-----------------------------------------------------------------------------
(* Specifications *)

\* One pass over the data is one batch.
Datasets == {<<b>> : b \in Batches}

\* One pass over the data is several batches, of samples that differ in
\* group and label.
EpochSamples == {s \in Samples : s.y_hat = <<1, 0>>}
EpochBatches == BatchesOver(EpochSamples)
EpochDatasets == UNION {[1 .. n -> EpochBatches] : n \in 1 .. MaxEpochBatches}

InitWith(D) ==
    /\ pc = "parse_config"
    /\ calls = <<>>
    /\ cfg \in Cfgs
    /\ dataset \in D
    /\ rng = [seeded |-> FALSE, seed |-> 0]
    /\ locals = Empty
    /\ optimizers = Empty
    /\ phase = "setup"
    /\ idx = 1
    /\ stage = "none"
    /\ batch = <<>>
    /\ c_arg = <<>>
    /\ metrics = Empty
    /\ logged = Empty
    /\ returned = RatInt(0)
    /\ epoch = <<>>
    /\ epoch_log = Empty

Init == InitWith(Datasets)
InitEpoch == InitWith(EpochDatasets)

Next ==
    \/ ParseConfig
    \/ FixSeeds
    \/ GetLogger
    \/ GetDatamodule
    \/ NewModel
    \/ GetTrainer
    \/ Fit
    \/ ConfigureOptimizers
    \/ TrainingStep
    \/ ValidationStep
    \/ EpochEnd
    \/ FitReturns

Spec == Init /\ [][Next]_vars
SpecEpoch == InitEpoch /\ [][Next]_vars

-----------------------------------------------------------------------------
(* What the claims speak of, stated on the observed batch. *)

Stepped == stage \in {"train", "val"}

\* The twelve keys of step's metrics.
MetricKeys ==
    {"acc", "loss", "hsic", "cross_entropy",
     "cross_entropy_group_0", "cross_entropy_group_1",
     "cross_entropy_group_2", "cross_entropy_group_3",
     "acc_group_0", "acc_group_1", "acc_group_2", "acc_group_3"}

\* The per-group entries of a metrics mapping logged under a prefix.
AccGroupAt(m, prefix, g) == m[prefix \o "acc_group_" \o ToString(g)]
CEGroupAt(m, prefix, g) == m[prefix \o "cross_entropy_group_" \o ToString(g)]

AccGroup(m, g) == AccGroupAt(m, "", g)
CEGroup(m, g) == CEGroupAt(m, "", g)

\* The samples of batch b that belong to group g.
Members(b, g) == {i \in DOMAIN b : b[i].group_idx = g}

\* Sample i of b is classified right: the logit of its label is the larger.
Right(b, i) == b[i].y_hat[b[i].Blond_Hair + 1] > b[i].y_hat[2 - b[i].Blond_Hair]

RECURSIVE SumCE(_, _)
\* The per-sample cross entropies of b summed over the samples in S.
SumCE(b, S) ==
    IF S = {} THEN 0
    ELSE LET i == CHOOSE j \in S : TRUE
         IN  cross_entropy_loss(b[i].y_hat, b[i].Blond_Hair) + SumCE(b, S \ {i})

\* The rational q is the quotient num / den (den > 0).
IsQuotient(q, num, den) == q[2] > 0 /\ q[1] * den = num * q[2]

-----------------------------------------------------------------------------
\* C1: whenever a step handler has run on a batch, the metrics step returned
\* have exactly the twelve keys acc, loss, hsic, cross_entropy,
\* cross_entropy_group_0..3 and acc_group_0..3, and metrics['loss'] is the
\* loss that was returned.
Thm_C1_StepReturnsLossAndTwelveMetrics ==
    Stepped =>
        /\ DOMAIN metrics = MetricKeys
        /\ Cardinality(DOMAIN metrics) = 12
        /\ metrics["loss"] = returned

Wit_C1_StepWithPenalty ==
    /\ Stepped
    /\ Len(batch) = MaxBatch
    /\ metrics["loss"] # metrics["cross_entropy"]

\* C2: the returned loss is cross_entropy + config.hsic.weight * hsic, where
\* cross_entropy is the mean of the per-sample cross entropies of the whole
\* batch and hsic is the penalty of that batch; with weight 0 the loss is the
\* cross_entropy metric; the reported loss, hsic and cross_entropy are the
\* values of that sum.
Thm_C2_LossIsCrossEntropyPlusWeightedHsic ==
    Stepped =>
        LET w  == cfg.hsic_weight
            l  == returned
            ce == metrics["cross_entropy"]
            h  == metrics["hsic"]
        IN  /\ IsQuotient(ce, SumCE(batch, DOMAIN batch), Len(batch))
            /\ h = HSIC(Rows(c_arg), [i \in DOMAIN batch |-> batch[i].y_hat])
            /\ IsFinite(l) /\ IsFinite(h)
            /\ l[1] * ce[2] * h[2] = l[2] * (ce[1] * h[2] + w * h[1] * ce[2])
            /\ metrics["loss"] = l
            /\ (w = 0 => l = ce)

Wit_C2_WeightedPenaltyInLoss ==
    /\ Stepped
    /\ cfg.hsic_weight = 2
    /\ metrics["hsic"][1] # 0
    /\ Len(batch) = MaxBatch

\* C3: for every group g with at least one sample in the batch, acc_group_g
\* is the number of group-g samples classified right divided by the number of
\* group-g samples, and cross_entropy_group_g is the sum of the group-g
\* per-sample cross entropies divided by that number; no other sample counts.
Thm_C3_GroupMetricsAreGroupAverages ==
    Stepped =>
        \A g \in Groups :
            LET M == Members(batch, g)
            IN  M # {} =>
                  /\ IsQuotient(AccGroup(metrics, g),
                                Cardinality({i \in M : Right(batch, i)}), Cardinality(M))
                  /\ IsQuotient(CEGroup(metrics, g), SumCE(batch, M), Cardinality(M))

Wit_C3_TwoGroupsDiffer ==
    /\ Stepped
    /\ \E g, h \in Groups :
          /\ g # h /\ Members(batch, g) # {} /\ Members(batch, h) # {}
          /\ AccGroup(metrics, g) = <<1, 1>> /\ AccGroup(metrics, h) = <<0, 1>>
          /\ CEGroup(metrics, g) # CEGroup(metrics, h)

\* C4: the indicator handed to HSIC is, per sample, the one-hot row of the
\* parity of group_idx: groups 0 and 2 give the row (1, 0), groups 1 and 3
\* the row (0, 1); the penalty is HSIC of that indicator and the predictions.
Thm_C4_IndicatorIsGroupParity ==
    Stepped =>
        /\ DOMAIN c_arg = DOMAIN batch
        /\ \A i \in DOMAIN batch :
              /\ batch[i].group_idx \in {0, 2} => c_arg[i] = (0 :> 1) @@ (1 :> 0)
              /\ batch[i].group_idx \in {1, 3} => c_arg[i] = (0 :> 0) @@ (1 :> 1)
        /\ metrics["hsic"] =
              HSIC([i \in DOMAIN batch |->
                       IF batch[i].group_idx \in {0, 2} THEN <<1, 0>> ELSE <<0, 1>>],
                   [i \in DOMAIN batch |-> batch[i].y_hat])

Wit_C4_HighGroupsInBatch ==
    /\ Stepped
    /\ Members(batch, 2) # {}
    /\ Members(batch, 3) # {}

\* C5: every one of the eight per-group metrics is a finite value (no
\* division by 0), a group with no sample in the batch reports exactly 0 for
\* its accuracy and its cross entropy, and every acc_group_g is in [0, 1].
Thm_C5_GroupMetricsFinite ==
    Stepped =>
        \A g \in Groups :
            /\ IsFinite(AccGroup(metrics, g)) /\ AccGroup(metrics, g)[2] > 0
            /\ IsFinite(CEGroup(metrics, g)) /\ CEGroup(metrics, g)[2] > 0
            /\ (Members(batch, g) = {} =>
                    AccGroup(metrics, g) = <<0, 1>> /\ CEGroup(metrics, g) = <<0, 1>>)
            /\ RatLeq(<<0, 1>>, AccGroup(metrics, g))
            /\ RatLeq(AccGroup(metrics, g), <<1, 1>>)

Wit_C5_AbsentAndFullGroup ==
    /\ Stepped
    /\ \E g, h \in Groups :
          /\ Members(batch, g) = {}
          /\ Cardinality(Members(batch, h)) = MaxBatch
          /\ AccGroup(metrics, h) \notin {<<0, 1>>, <<1, 1>>}

\* The statements of main, in the order of its text.
MainOrder ==
    <<"parse_config", "fix_seeds", "get_logger", "get_datamodule", "Model",
      "get_trainer", "fit">>

IsPrefix(s, t) == Len(s) <= Len(t) /\ \A i \in 1 .. Len(s) : s[i] = t[i]

\* The group-g samples of a pass over the batches d: how many there are, how
\* many of them are classified right, and the sum of their cross entropies.
PooledCount(d, g) == SumSeq([k \in DOMAIN d |-> Cardinality(Members(d[k], g))])
PooledRight(d, g) ==
    SumSeq([k \in DOMAIN d |-> Cardinality({i \in Members(d[k], g) : Right(d[k], i)})])
PooledCE(d, g) == SumSeq([k \in DOMAIN d |-> SumCE(d[k], Members(d[k], g))])

\* The loop whose reduced values epoch_log holds.
Reduced == phase \in {"val", "end"}
ReducedPrefix == IF phase = "val" THEN "train_" ELSE "val_"

\* C6: at the end of a loop over the epoch's batches, the epoch-level value
\* of acc_group_g (cross_entropy_group_g) under the handler's prefix is the
\* accuracy (mean cross entropy) over exactly the group-g samples seen in the
\* epoch, for every group that has a sample in the epoch.
Cex_C6_EpochValueIsPooledGroupAverage ==
    Reduced =>
        \A g \in Groups :
            PooledCount(dataset, g) > 0 =>
                /\ IsQuotient(AccGroupAt(epoch_log, ReducedPrefix, g),
                              PooledRight(dataset, g), PooledCount(dataset, g))
                /\ IsQuotient(CEGroupAt(epoch_log, ReducedPrefix, g),
                              PooledCE(dataset, g), PooledCount(dataset, g))

\* C7: training_step and validation_step each log exactly step's metrics, one
\* key per step key under the prefix 'train_' and 'val_' respectively with
\* the values unchanged, and return step's loss unchanged; the two logged key
\* sets are disjoint and of equal size, and on the same batch the two
\* handlers log the same values (the training loop's reduced log of a
\* one-batch pass holds what training_step logged for that batch).
Thm_C7_HandlersLogPrefixedMetrics ==
    Stepped =>
        LET own   == IF stage = "train" THEN "train_" ELSE "val_"
            other == IF stage = "train" THEN "val_" ELSE "train_"
        IN  /\ DOMAIN logged = {own \o k : k \in MetricKeys}
            /\ \A k \in DOMAIN metrics : logged[own \o k] = metrics[k]
            /\ Cardinality(DOMAIN logged) = Cardinality(DOMAIN metrics)
            /\ DOMAIN logged \cap {other \o k : k \in MetricKeys} = {}
            /\ returned = metrics["loss"]
            /\ returned = step(batch, cfg.hsic_weight).loss
            /\ (stage = "val" /\ phase = "val" /\ Len(dataset) = 1 =>
                    /\ DOMAIN epoch_log = {"train_" \o k : k \in MetricKeys}
                    /\ \A k \in MetricKeys : epoch_log["train_" \o k] = logged["val_" \o k])

Wit_C7_BothHandlersRan ==
    /\ stage = "val" /\ phase = "val"
    /\ "train_loss" \in DOMAIN epoch_log
    /\ "val_loss" \in DOMAIN logged
    /\ Len(batch) = MaxBatch

\* C8: main performs its statements in the order of its text, each once:
\* parse the configuration, fix the seeds, construct the logger, the
\* datamodule, the Model and the trainer, and call trainer.fit last; the seeds
\* are fixed before the datamodule and the network are constructed, and fit
\* is not called before all four collaborators exist.
Thm_C8_MainRunsInOrder ==
    /\ IsPrefix(calls, MainOrder)
    /\ \A i, j \in DOMAIN calls : calls[i] = calls[j] => i = j
    /\ ("datamodule" \in DOMAIN locals => locals["datamodule"].init_rng.seeded)
    /\ ("model" \in DOMAIN locals => locals["model"].network.init_rng.seeded)
    /\ (pc \in {"fit", "in_fit", "done"} =>
            {"logger", "datamodule", "model", "trainer"} \subseteq DOMAIN locals)
    /\ (pc \in {"in_fit", "done"} => calls = MainOrder)
    /\ (pc \notin {"in_fit", "done"} => phase = "setup" /\ stage = "none")

Wit_C8_MainDone ==
    /\ pc = "done"
    /\ calls[Len(calls)] = "fit"
    /\ rng.seeded

\* C9: configure_optimizers returns a mapping with the key 'optimizer'; it
\* has the key 'lr_scheduler' exactly when the scheduler factory returned a
\* scheduler, which is then built on that same optimizer and monitors
\* 'val_loss', one of the keys validation_step logs.
Thm_C9_OptimizersMapping ==
    phase # "setup" =>
        /\ "optimizer" \in DOMAIN optimizers
        /\ DOMAIN optimizers \subseteq {"optimizer", "lr_scheduler"}
        /\ ("lr_scheduler" \in DOMAIN optimizers <=> cfg.scheduler)
        /\ ("lr_scheduler" \in DOMAIN optimizers =>
                /\ optimizers["lr_scheduler"].scheduler.kind = "scheduler"
                /\ optimizers["lr_scheduler"].scheduler.optimizer = optimizers["optimizer"]
                /\ optimizers["lr_scheduler"].monitor = "val_loss"
                /\ (stage = "val" => optimizers["lr_scheduler"].monitor \in DOMAIN logged))

Wit_C9_SchedulerMonitorsLoggedKey ==
    /\ "lr_scheduler" \in DOMAIN optimizers
    /\ stage = "val"
    /\ "val_loss" \in DOMAIN logged

\* C10: on a non-empty batch the four groups partition the batch, and the
\* per-group metrics agree with the overall ones: the sum over g of
\* count_g * acc_group_g is batch_size * acc, the sum over g of
\* count_g * cross_entropy_group_g is batch_size * cross_entropy, and acc is
\* the fraction of the samples that are classified right.
Thm_C10_GroupMetricsSumToOverall ==
    Stepped =>
        LET n(g) == Cardinality(Members(batch, g))
            B == Len(batch)
        IN  /\ B > 0
            /\ SumSeq([k \in 1 .. NumGroups |-> n(k - 1)]) = B
            /\ RatSumSeq([k \in 1 .. NumGroups |->
                    RatMul(RatInt(n(k - 1)), AccGroup(metrics, k - 1))])
                 = RatMul(RatInt(B), metrics["acc"])
            /\ RatSumSeq([k \in 1 .. NumGroups |->
                    RatMul(RatInt(n(k - 1)), CEGroup(metrics, k - 1))])
                 = RatMul(RatInt(B), metrics["cross_entropy"])
            /\ IsQuotient(metrics["acc"],
                          Cardinality({i \in DOMAIN batch : Right(batch, i)}), B)

Wit_C10_TwoGroupsHalfRight ==
    /\ Stepped
    /\ Cardinality({g \in Groups : Members(batch, g) # {}}) = 2
    /\ metrics["acc"] = <<1, 2>>

====
